---- MODULE Spec2Model ----
(***************************************************************************)
(* History chatbot (Gemini + LangChain): the conversation object shared by *)
(* both entry points (langchain_app.py, streamlit_app.py), the CLI loop    *)
(* and the Streamlit script main().                                        *)
(*                                                                         *)
(* A behaviour is one run of one entry point, chosen in Init:              *)
(*   "conv" : the conversation object of langchain_app.py driven directly  *)
(*            (conversation.invoke / get_session_history with any          *)
(*            session_id),                                                 *)
(*   "cli"  : langchain_app.py as a script (key check, then the loop),     *)
(*   "ui"   : streamlit_app.py, one browser session; every action is one   *)
(*            run of main().                                               *)
(* Optional values (Python None or a value) are <<>> or <<v>>.             *)
(***************************************************************************)
EXTENDS Naturals, Sequences, FiniteSets, TLC

\* ------------------------------------------------------------------ bounds
\* Handlers (loop iterations, script runs, direct calls) in one behaviour.
MaxSteps == 4

\* ------------------------------------------------------------------ inputs
None == <<>>
Some(x) == <<x>>

SessionIds == {"s1", "s2"}
Questions == {"", " ", "Who was Akbar?", "Who was Ashoka?"}
ConvQuestions == {"Who was Akbar?", "Who was Ashoka?"}
Replies == {"Akbar was a Mughal emperor...", "Ashoka was a Mauryan emperor..."}
\* What the model client does with a prompt: None = it raises, Some(a) = reply a.
Outcomes == {None} \cup {Some(a) : a \in Replies}
CliInputs == Questions \cup {"exit", "EXIT"}
\* st.chat_input: None when nothing was submitted, else the text typed.
UiInputs == {None} \cup {Some(q) : q \in ConvQuestions}
ApiKey == "AIza-key"
EnvValues == {None, Some(""), Some(ApiKey)}
\* st.secrets: raises when no secrets file is configured, else .get() result.
SecretsValues == {[raises |-> TRUE, value |-> None],
                  [raises |-> FALSE, value |-> None],
                  [raises |-> FALSE, value |-> Some(ApiKey)]}
ErrText == "quota exceeded"

VARIABLES
    entry,              \* which entry point this behaviour runs
    environ,            \* os.getenv("GOOGLE_API_KEY") after load_dotenv()
    secrets,            \* st.secrets
    heap,               \* InMemoryChatMessageHistory objects: ref -> messages
    session_histories,  \* langchain_app.py: session_id -> ref
    session_state,      \* st.session_state: present keys -> values
    nextUuid,           \* uuid4() calls made so far
    cliPc,              \* CLI: "startup" | "loop" | "crashed" | "exited"
    stdout,             \* CLI: lines printed
    page,               \* UI: what the last run of main() rendered
    calls,              \* log of model invocations (prompt sent, outcome)
    last,               \* the handler that ran last, with its input
    steps

vars == <<entry, environ, secrets, heap, session_histories, session_state,
          nextUuid, cliPc, stdout, page, calls, last, steps>>

\* ------------------------------------------------------------ pure helpers
Truthy(opt) == opt # None /\ opt[1] # ""

system_template ==
    "You are a knowlegeable history teacher. You are given a question and you need to answer it in a way that is easy to understand and engaging for a 10 year old."

SystemMessage(c) == [type |-> "system", content |-> c]
HumanMessage(c) == [type |-> "human", content |-> c]
AIMessage(c) == [type |-> "ai", content |-> c]

EmptyDict == [k \in {} |-> 0]

\* str.lower() on the inputs of the model.
Lower(s) == IF s \in {"exit", "EXIT"} THEN "exit" ELSE s

\* ChatPromptTemplate.from_messages([system, MessagesPlaceholder("history"),
\* ("human", "{question}")]) formatted with history and question.
prompt_template_window(history, question) ==
    <<SystemMessage(system_template)>>
        \o SubSeq(history, IF Len(history) > 2 THEN Len(history) - 1 ELSE 1, Len(history))
        \o <<HumanMessage(question)>>

prompt_template(history, question) ==
    <<SystemMessage(system_template)>> \o history \o <<HumanMessage(question)>>

\* get_session_history: create on first use, else return the stored object.
get_session_history_fresh(store, hp, session_id) ==
    [store |-> [s \in DOMAIN store \cup {session_id} |->
                    IF s = session_id THEN Len(hp) + 1 ELSE store[s]],
     heap |-> Append(hp, <<>>),
     ref |-> Len(hp) + 1]

get_session_history_shared(store, hp, session_id) ==
    IF DOMAIN store = {}
    THEN [store |-> [s \in {session_id} |-> Len(hp) + 1],
          heap |-> Append(hp, <<>>),
          ref |-> Len(hp) + 1]
    ELSE LET r == store[CHOOSE s \in DOMAIN store : TRUE]
         IN [store |-> [s \in DOMAIN store \cup {session_id} |->
                            IF s = session_id THEN r ELSE store[s]],
             heap |-> hp,
             ref |-> r]

get_session_history(store, hp, session_id) ==
    IF session_id \notin DOMAIN store
    THEN [store |-> [s \in DOMAIN store \cup {session_id} |->
                        IF s = session_id THEN Len(hp) + 1 ELSE store[s]],
          heap |-> Append(hp, <<>>),
          ref |-> Len(hp) + 1]
    ELSE [store |-> store, heap |-> hp, ref |-> store[session_id]]

\* RunnableWithMessageHistory(chain, get_session_history, "question",
\* "history").invoke({"question": q}, session_id): look the history up, send
\* prompt | model, and on success only save the input and the output message.
conversation_invoke_ai_only(store, hp, session_id, question, outcome) ==
    LET g == get_session_history(store, hp, session_id)
        prompt == prompt_template(g.heap[g.ref], question)
    IN [store |-> g.store,
        heap |-> IF outcome = None THEN g.heap
                 ELSE [g.heap EXCEPT ![g.ref] = Append(@, AIMessage(outcome[1]))],
        ref |-> g.ref,
        prompt |-> prompt,
        raised |-> outcome = None]

conversation_invoke_eager_save(store, hp, session_id, question, outcome) ==
    LET g == get_session_history(store, hp, session_id)
        prompt == prompt_template(g.heap[g.ref], question)
    IN [store |-> g.store,
        heap |-> IF outcome = None
                 THEN [g.heap EXCEPT ![g.ref] = Append(@, HumanMessage(question))]
                 ELSE [g.heap EXCEPT ![g.ref] =
                          @ \o <<HumanMessage(question), AIMessage(outcome[1])>>],
        ref |-> g.ref,
        prompt |-> prompt,
        raised |-> outcome = None]

conversation_invoke(store, hp, session_id, question, outcome) ==
    LET g == get_session_history(store, hp, session_id)
        prompt == prompt_template(g.heap[g.ref], question)
    IN [store |-> g.store,
        heap |-> IF outcome = None THEN g.heap
                 ELSE [g.heap EXCEPT ![g.ref] =
                          @ \o <<HumanMessage(question), AIMessage(outcome[1])>>],
        ref |-> g.ref,
        prompt |-> prompt,
        raised |-> outcome = None]

Call(session_id, question, r, outcome) ==
    [session_id |-> session_id, question |-> question, prompt |-> r.prompt,
     outcome |-> outcome]

Last(op, session_id, input, ref, raised) ==
    [op |-> op, session_id |-> session_id, input |-> input, ref |-> ref,
     raised |-> raised]

\* ------------------------------------------------------------------ the CLI
\* langchain_app.py 11-17: load_dotenv(); raise RuntimeError without a key.
cli_startup_no_check(env) == "loop"

cli_startup(env) == IF ~Truthy(env) THEN "crashed" ELSE "loop"

Welcome == "Welcome to the history chatbot! Type 'exit' to end the conversation."
ErrorLine == "Error: " \o ErrText \o ", plz check your api key and try again"

\* One iteration of the while True loop on the line read by input().
cli_loop_body_no_except(store, hp, out, user_input, outcome) ==
    IF Lower(user_input) = "exit"
    THEN [store |-> store, heap |-> hp, stdout |-> Append(out, "Goodbye!"),
          pc |-> "exited", called |-> FALSE, ref |-> 0, raised |-> FALSE,
          prompt |-> <<>>]
    ELSE LET r == conversation_invoke(store, hp, "default", user_input, outcome)
         IN [store |-> r.store, heap |-> r.heap,
             stdout |-> IF r.raised THEN out
                        ELSE Append(out, "AI:  " \o outcome[1]),
             pc |-> IF r.raised THEN "crashed" ELSE "loop",
             called |-> TRUE, ref |-> r.ref,
             raised |-> r.raised, prompt |-> r.prompt]

cli_loop_body(store, hp, out, user_input, outcome) ==
    IF Lower(user_input) = "exit"
    THEN [store |-> store, heap |-> hp, stdout |-> Append(out, "Goodbye!"),
          pc |-> "exited", called |-> FALSE, ref |-> 0, raised |-> FALSE,
          prompt |-> <<>>]
    ELSE LET r == conversation_invoke(store, hp, "default", user_input, outcome)
         IN [store |-> r.store, heap |-> r.heap,
             stdout |-> IF r.raised THEN Append(out, ErrorLine)
                        ELSE Append(out, "AI:  " \o outcome[1]),
             pc |-> "loop", called |-> TRUE, ref |-> r.ref,
             raised |-> r.raised, prompt |-> r.prompt]

\* ------------------------------------------------------------------- the UI
\* get_env_api_key: the environment first, then st.secrets, None if it raises.
get_env_api_key(env, sec) ==
    IF Truthy(env) THEN env
    ELSE IF sec.raises THEN None ELSE sec.value

Uuid(n) == "uuid-" \o ToString(n)

\* main() 89-94: session state setup.
session_setup(ss, n) ==
    LET fresh == "session_id" \notin DOMAIN ss
        s1 == IF fresh THEN ("session_id" :> Uuid(n + 1)) @@ ss ELSE ss
        s2 == IF "history_store" \notin DOMAIN s1
              THEN ("history_store" :> EmptyDict) @@ s1 ELSE s1
        s3 == IF "messages" \notin DOMAIN s2
              THEN ("messages" :> <<>>) @@ s2 ELSE s2
    IN [session_state |-> s3, nextUuid |-> IF fresh THEN n + 1 ELSE n]

Message(role, content) == [role |-> role, content |-> content]

\* main() 88-127 on the session state ss with the value of st.chat_input.
main_body(ss, hp, n, user_input, outcome) ==
    LET su == session_setup(ss, n)
        st == su.session_state
    IN IF ~Truthy(user_input)
       THEN [session_state |-> st, heap |-> hp, nextUuid |-> su.nextUuid,
             page |-> "chat", called |-> FALSE, ref |-> 0, raised |-> FALSE,
             prompt |-> <<>>]
       ELSE LET q == user_input[1]
                m1 == Append(st.messages, Message("user", q))
                r == conversation_invoke(st.history_store, hp, st.session_id,
                                         q, outcome)
                m2 == IF r.raised THEN m1
                      ELSE Append(m1, Message("assistant", outcome[1]))
            IN [session_state |-> [st EXCEPT !["messages"] = m2,
                                             !["history_store"] = r.store],
                heap |-> r.heap, nextUuid |-> su.nextUuid,
                page |-> IF r.raised THEN "exception" ELSE "chat",
                called |-> TRUE, ref |-> r.ref, raised |-> r.raised,
                prompt |-> r.prompt]

\* One run of main(): the key gate, the sidebar (Reset chat), then the body.
main(ss, hp, n, env, sec, button, user_input, outcome) ==
    IF ~Truthy(get_env_api_key(env, sec))
    THEN [session_state |-> ss, heap |-> hp, nextUuid |-> n, page |-> "no_key",
          called |-> FALSE, ref |-> 0, raised |-> FALSE, prompt |-> <<>>]
    ELSE IF button
         THEN main_body(EmptyDict, hp, n, None, outcome)
         ELSE main_body(ss, hp, n, user_input, outcome)

\* --------------------------------------------------------------------- Init
Init ==
    /\ entry \in {"conv", "cli", "ui"}
    /\ environ \in EnvValues
    /\ secrets \in SecretsValues
    /\ entry = "conv" => environ = Some(ApiKey)
    /\ entry # "ui" => secrets = [raises |-> TRUE, value |-> None]
    /\ heap = <<>>
    /\ session_histories = EmptyDict
    /\ session_state = EmptyDict
    /\ nextUuid = 0
    /\ cliPc = "startup"
    /\ stdout = <<>>
    /\ page = "none"
    /\ calls = <<>>
    /\ last = Last("init", "", None, 0, FALSE)
    /\ steps = 0

\* ------------------------------------------------- the conversation object
\* conversation.invoke({"question": q}, config session_id = sid)
ConvInvoke ==
    /\ entry = "conv"
    /\ steps < MaxSteps
    /\ \E sid \in SessionIds, q \in ConvQuestions, outcome \in Outcomes :
        LET r == conversation_invoke(session_histories, heap, sid, q, outcome)
        IN /\ session_histories' = r.store
           /\ heap' = r.heap
           /\ calls' = Append(calls, Call(sid, q, r, outcome))
           /\ last' = Last("invoke", sid, Some(q), r.ref, r.raised)
    /\ steps' = steps + 1
    /\ UNCHANGED <<entry, environ, secrets, session_state, nextUuid, cliPc,
                   stdout, page>>

\* get_session_history(sid) called on its own
ConvLookup ==
    /\ entry = "conv"
    /\ steps < MaxSteps
    /\ \E sid \in SessionIds :
        LET g == get_session_history(session_histories, heap, sid)
        IN /\ session_histories' = g.store
           /\ heap' = g.heap
           /\ last' = Last("lookup", sid, None, g.ref, FALSE)
    /\ steps' = steps + 1
    /\ UNCHANGED <<entry, environ, secrets, session_state, nextUuid, cliPc,
                   stdout, page, calls>>

\* ------------------------------------------------------------------ the CLI
CliStart ==
    /\ entry = "cli"
    /\ cliPc = "startup"
    /\ steps < MaxSteps
    /\ cliPc' = cli_startup(environ)
    /\ stdout' = IF cliPc' = "loop" THEN Append(stdout, Welcome) ELSE stdout
    /\ last' = Last("start", "", None, 0, cliPc' = "crashed")
    /\ steps' = steps + 1
    /\ UNCHANGED <<entry, environ, secrets, heap, session_histories,
                   session_state, nextUuid, page, calls>>

CliLoop ==
    /\ entry = "cli"
    /\ cliPc = "loop"
    /\ steps < MaxSteps
    /\ \E user_input \in CliInputs, outcome \in Outcomes :
        LET r == cli_loop_body(session_histories, heap, stdout, user_input, outcome)
        IN /\ session_histories' = r.store
           /\ heap' = r.heap
           /\ stdout' = r.stdout
           /\ cliPc' = r.pc
           /\ calls' = IF r.called
                       THEN Append(calls, Call("default", user_input, r, outcome))
                       ELSE calls
           /\ last' = Last(IF r.called THEN "invoke" ELSE "exit", "default",
                           Some(user_input), r.ref, r.raised)
    /\ steps' = steps + 1
    /\ UNCHANGED <<entry, environ, secrets, session_state, nextUuid, page>>

\* ------------------------------------------------------------------- the UI
CurrentSid(ss) == IF "session_id" \in DOMAIN ss THEN ss.session_id ELSE ""

\* The widgets (chat input, Reset chat) exist once a run got past the key gate.
WidgetsRendered == page \in {"chat", "exception"}

\* A run of main() triggered by a page load or by st.chat_input.
UiRun ==
    /\ entry = "ui"
    /\ steps < MaxSteps
    /\ \E user_input \in UiInputs, outcome \in Outcomes :
        /\ user_input # None => WidgetsRendered
        /\ LET r == main(session_state, heap, nextUuid, environ, secrets, FALSE,
                         user_input, outcome)
               sid == CurrentSid(r.session_state)
           IN /\ session_state' = r.session_state
              /\ heap' = r.heap
              /\ nextUuid' = r.nextUuid
              /\ page' = r.page
              /\ calls' = IF r.called
                          THEN Append(calls, Call(sid, user_input[1], r, outcome))
                          ELSE calls
              /\ last' = Last(IF r.called THEN "invoke"
                              ELSE IF r.page = "no_key" THEN "stopped" ELSE "load",
                              sid, user_input, r.ref, r.raised)
    /\ steps' = steps + 1
    /\ UNCHANGED <<entry, environ, secrets, session_histories, cliPc, stdout>>

\* A run of main() triggered by the "Reset chat" button, with its rerun.
UiReset ==
    /\ entry = "ui"
    /\ steps < MaxSteps
    /\ WidgetsRendered
    /\ LET r == main(session_state, heap, nextUuid, environ, secrets, TRUE,
                     None, None)
       IN /\ session_state' = r.session_state
          /\ heap' = r.heap
          /\ nextUuid' = r.nextUuid
          /\ page' = r.page
          /\ last' = Last(IF r.page = "no_key" THEN "stopped" ELSE "reset",
                          CurrentSid(r.session_state), None, 0, FALSE)
    /\ steps' = steps + 1
    /\ UNCHANGED <<entry, environ, secrets, session_histories, cliPc, stdout,
                   calls>>

Next ==
    \/ ConvInvoke
    \/ ConvLookup
    \/ CliStart
    \/ CliLoop
    \/ UiRun
    \/ UiReset

Spec == Init /\ [][Next]_vars

\* ------------------------------------------------------- what the claims read
\* The session store of the running entry point.
StoreNow ==
    IF entry = "ui"
    THEN IF "history_store" \in DOMAIN session_state
         THEN session_state.history_store ELSE EmptyDict
    ELSE session_histories

\* The turns recorded for a session (none when the store has no such key).
HistOf(sid) == IF sid \in DOMAIN StoreNow THEN heap[StoreNow[sid]] ELSE <<>>

\* The same in the state a step leads to.
HistOfNext(sid) ==
    IF sid \in DOMAIN StoreNow' THEN heap'[StoreNow'[sid]] ELSE <<>>

MessagesNow ==
    IF "messages" \in DOMAIN session_state THEN session_state.messages ELSE <<>>

LastCall == calls[Len(calls)]

RECURSIVE Exchanges(_, _)
\* The turns of the successful exchanges of sid in the call log cs, in order.
Exchanges(sid, cs) ==
    IF cs = <<>> THEN <<>>
    ELSE LET c == cs[Len(cs)]
             before == Exchanges(sid, SubSeq(cs, 1, Len(cs) - 1))
         IN IF c.session_id = sid /\ c.outcome # None
            THEN before \o <<[type |-> "human", content |-> c.question],
                             [type |-> "ai", content |-> c.outcome[1]]>>
            ELSE before

OkCount(sid, cs) ==
    Cardinality({i \in 1..Len(cs) : cs[i].session_id = sid /\ cs[i].outcome # None})

Blank(q) == q \in {"", " "}

KeyAvailable ==
    IF entry = "ui"
    THEN Truthy(environ) \/ (~secrets.raises /\ Truthy(secrets.value))
    ELSE Truthy(environ)

\* ---------------------------------------------------------------------- C1
C1_Recorded ==
    \A sid \in DOMAIN StoreNow : HistOf(sid) = Exchanges(sid, calls)

C1_Step ==
    (last'.op = "invoke" /\ ~last'.raised) =>
        LET sid == last'.session_id
            c == calls'[Len(calls')]
        IN /\ HistOfNext(sid) = HistOf(sid) \o
                    <<[type |-> "human", content |-> c.question],
                      [type |-> "ai", content |-> c.outcome[1]]>>
           /\ Len(HistOfNext(sid)) = Len(HistOf(sid)) + 2
           /\ c.question = last'.input[1]

\* C1: every successful conversation.invoke on a session appends exactly two
\* turns to that session's history, the user turn with the question and then
\* the assistant turn with the reply, and leaves the turns recorded before
\* in place: a history is always the turns of its successful exchanges in
\* the order they were made.
C1_AppendOnly == [][C1_Step]_vars /\ []C1_Recorded

C1_Witness ==
    /\ last.op = "invoke"
    /\ ~last.raised
    /\ Len(HistOf(last.session_id)) >= 4

\* ---------------------------------------------------------------------- C2
C2_Step ==
    (last'.op = "invoke" /\ last'.raised) =>
        /\ HistOfNext(last'.session_id) = HistOf(last'.session_id)
        /\ \A r \in 1..Len(heap) : heap'[r] = heap[r]
        /\ Len(heap'[last'.ref]) = Len(HistOf(last'.session_id))

\* C2: when the model client raises during conversation.invoke, the history
\* of that session has the same length and content after the call as before
\* it, and no other history object is changed.
C2_NoMutationOnFailure == [][C2_Step]_vars

C2_Witness ==
    /\ last.op = "invoke"
    /\ last.raised
    /\ Len(HistOf(last.session_id)) >= 2

\* ---------------------------------------------------------------------- C3
C3_Step ==
    (last'.input # None /\ Blank(last'.input[1])) =>
        /\ calls' = calls
        /\ StoreNow' = StoreNow
        /\ heap' = heap
        /\ MessagesNow' = MessagesNow

\* C3: an empty or whitespace-only question is rejected before any state
\* mutation and before any call to the model client: the model is not
\* invoked, no history is created in the store and nothing is recorded.
C3_BlankRejected == [][C3_Step]_vars

\* ---------------------------------------------------------------------- C4
C4_Step ==
    last'.op \in {"invoke", "lookup"} =>
        /\ DOMAIN StoreNow' \subseteq DOMAIN StoreNow \cup {last'.session_id}
        /\ \A b \in DOMAIN StoreNow \ {last'.session_id} :
            /\ b \in DOMAIN StoreNow'
            /\ StoreNow'[b] = StoreNow[b]
            /\ heap'[StoreNow[b]] = heap[StoreNow[b]]

C4_ScenarioC ==
    (/\ Len(calls) = 2
     /\ calls[1].session_id # calls[2].session_id
     /\ calls[1].outcome # None
     /\ calls[2].outcome # None
     /\ calls[1].session_id \in DOMAIN StoreNow) =>
        /\ Cardinality(DOMAIN StoreNow) = 2
        /\ StoreNow[calls[1].session_id] # StoreNow[calls[2].session_id]
        /\ \A i \in 1..2 :
            HistOf(calls[i].session_id) =
                <<[type |-> "human", content |-> calls[i].question],
                  [type |-> "ai", content |-> calls[i].outcome[1]]>>

\* C4: a lookup or an exchange (successful or failed) for one session id
\* leaves every other session's entry and history as they were and adds no
\* other key; after one successful question on each of two sessions the
\* store holds exactly two histories, each with the two turns of its own
\* exchange.
C4_SessionIsolation == [][C4_Step]_vars /\ []C4_ScenarioC

C4_Witness ==
    /\ Len(calls) = 2
    /\ calls[1].session_id # calls[2].session_id
    /\ calls[1].outcome # None
    /\ calls[2].outcome # None
    /\ calls[1].question # calls[2].question
    /\ calls[1].session_id \in DOMAIN StoreNow

\* ---------------------------------------------------------------------- C5
C5_Step ==
    last'.op = "invoke" =>
        LET sid == last'.session_id
            c == calls'[Len(calls')]
        IN /\ calls' = Append(calls, c)
           /\ c.session_id = sid
           /\ c.question = last'.input[1]
           /\ c.prompt = <<[type |-> "system", content |-> system_template]>>
                            \o HistOf(sid)
                            \o <<[type |-> "human", content |-> c.question]>>
           /\ Len(c.prompt) = 2 + 2 * OkCount(sid, calls)

\* C5: the prompt sent to the model is the system instruction, then every
\* turn of the session's history in order with its recorded role, then the
\* new question as the user turn; the n-th question's prompt holds all
\* 2(n-1) turns of the session's earlier successful exchanges.
C5_PromptAssembly == [][C5_Step]_vars

C5_Witness ==
    /\ last.op = "invoke"
    /\ Len(LastCall.prompt) = 6

\* ---------------------------------------------------------------------- C6
C6_Step ==
    last'.op \in {"invoke", "lookup"} =>
        LET sid == last'.session_id
        IN IF sid \in DOMAIN StoreNow
           THEN /\ last'.ref = StoreNow[sid]
                /\ StoreNow' = StoreNow
                /\ Len(heap') = Len(heap)
                /\ last'.op = "lookup" => heap' = heap
           ELSE /\ last'.ref \notin 1..Len(heap)
                /\ DOMAIN StoreNow' = DOMAIN StoreNow \cup {sid}
                /\ StoreNow'[sid] = last'.ref
                /\ Len(heap') = Len(heap) + 1
                /\ last'.op = "lookup" => heap'[last'.ref] = <<>>

C6_OnePerId ==
    \A a, b \in DOMAIN StoreNow : a # b => StoreNow[a] # StoreNow[b]

\* C6: the first lookup of an unseen session id stores and returns a new
\* empty history; every later lookup of that id returns the stored object
\* itself and changes nothing, and no two ids share a history object.
C6_GetOrCreate == [][C6_Step]_vars /\ []C6_OnePerId

C6_Witness ==
    /\ last.op = "lookup"
    /\ Len(heap[last.ref]) >= 2
    /\ Cardinality(DOMAIN StoreNow) = 2

\* ---------------------------------------------------------------------- C8
C8_Step ==
    /\ Len(calls') <= Len(calls) + 1
    /\ last'.op = "invoke" =>
        /\ Len(calls') = Len(calls) + 1
        /\ calls'[Len(calls')].question = last'.input[1]
    /\ (last'.op = "invoke" /\ last'.raised) =>
        /\ entry = "cli" =>
            /\ stdout' = Append(stdout, ErrorLine)
            /\ cliPc' = "loop"
        /\ entry = "ui" =>
            /\ page' = "exception"
            /\ {"session_id", "history_store", "messages"}
                   \subseteq DOMAIN session_state'
    /\ (cliPc = "loop" /\ cliPc' # "loop") =>
        /\ cliPc' = "exited"
        /\ last'.input \in {Some("exit"), Some("EXIT")}
        /\ calls' = calls

\* C8: a failed model invocation is shown to the user, the question is sent
\* to the model once only, and the front end stays ready for another
\* question; the CLI loop ends only when the user types 'exit'.
C8_FailureReporting == [][C8_Step]_vars

C8_Witness ==
    /\ entry = "cli"
    /\ Len(calls) = 2
    /\ calls[1].outcome = None
    /\ last.op = "invoke"
    /\ cliPc = "loop"

\* ---------------------------------------------------------------------- C9
\* C9: without an API credential the program stops at startup: the CLI
\* raises before the loop and prints nothing, the UI stops before the
\* session state is set up or any input is read, and the model is never
\* invoked; so every model invocation follows a successful credential check.
C9_CredentialGate ==
    /\ (entry = "cli" /\ ~KeyAvailable) =>
        /\ cliPc \in {"startup", "crashed"}
        /\ stdout = <<>>
        /\ calls = <<>>
        /\ session_histories = EmptyDict
    /\ (entry = "ui" /\ ~KeyAvailable) =>
        /\ page \in {"none", "no_key"}
        /\ session_state = EmptyDict
        /\ calls = <<>>
        /\ heap = <<>>
    /\ (entry = "cli" /\ calls # <<>>) => (Truthy(environ) /\ cliPc # "startup")

C9_Witness ==
    /\ entry = "ui"
    /\ page = "no_key"
    /\ last.op = "stopped"
    /\ steps >= 2

\* --------------------------------------------------------------------- C10
Role(type) == IF type = "human" THEN "user" ELSE "assistant"

\* C10: in the browser UI, after any run of main(), st.session_state.messages
\* is exactly the role/content sequence of the history stored for the current
\* session_id.
C10_TranscriptMatchesHistory ==
    (entry = "ui" /\ "messages" \in DOMAIN session_state) =>
        LET h == HistOf(session_state.session_id)
        IN session_state.messages =
               [i \in 1..Len(h) |-> [role |-> Role(h[i].type),
                                     content |-> h[i].content]]

====
